---------------------------- MODULE Spec2Model ----------------------------
(***************************************************************************)
(* State-machine model of the serial -> LSL bridge                         *)
(* src/Kraken_recording/arduino_lsl_bridge.py (find_sync, read_exact,      *)
(* main and the __main__ guard).                                           *)
(*                                                                         *)
(* The byte source is a fixed, finite device output `stream`; `pos` is the *)
(* number of its bytes the transport has handed to the bridge.  Every      *)
(* ser.read(n) is one step that returns between 0 bytes (a timeout) and    *)
(* min(n, bytes not yet consumed) bytes.  The variables `layout`,          *)
(* `pktStart`, `syncFrom`, `synced`, `rejected`, `accepted`, `published`,  *)
(* `reports` and `serlog` are history variables: they record where in the  *)
(* stream the bytes held by the program came from and what the program did *)
(* with them.                                                              *)
(*                                                                         *)
(* Spec runs the bridge from its first find_sync on device outputs with    *)
(* noise; SpecStop adds the ways main can end; SpecBoot starts at the      *)
(* handshake; SpecCounter runs it, with no read timing out, on outputs     *)
(* whose counter bytes are chosen freely.                                  *)
(***************************************************************************)
EXTENDS Integers, Sequences, FiniteSets, TLC

\* ------------------------------------------------------------------------
\* Device profile (arduino_lsl_bridge.py lines 18-24)
\* ------------------------------------------------------------------------
NUM_CHANNELS == 6
SYNC_BYTE_1 == 199
SYNC_BYTE_2 == 124
END_BYTE == 1
PACKET_LEN == NUM_CHANNELS * 2 + 3 + 1

\* The reporting interval of line 119 (1.0 s), in clock ticks of 1.0 s, so
\* that the readings up to MaxClock span two intervals.
REPORT_INTERVAL == 1

\* ------------------------------------------------------------------------
\* Bounds of the device outputs and clock readings explored
\* ------------------------------------------------------------------------
\* Most frames the device emits in one stream.
MaxFrames == 3
\* Most noise bytes inserted into one stream.
MaxNoise == 1
\* Largest reading of the wall clock, in ticks of 1.0 s after the reading of
\* line 92.
MaxClock == 2
\* The most bytes ser.in_waiting reports at line 67.
MaxReply == 3
\* The most bytes of its first frame a device output may lack.
MaxLead == 1
\* The most bytes a frame loses on the line ahead of a run of whole frames.
MaxLost == 3
\* The whole frames the device sends back to back after the disturbance.
TailFrames == 4

\* ------------------------------------------------------------------------
\* Device output: frames and noise
\* ------------------------------------------------------------------------
\* The payload of the reference packet: channel values 1..6.
RefPayload == <<0, 1, 0, 2, 0, 3, 0, 4, 0, 5, 0, 6>>
\* A payload with high bytes set, values above the 14-bit range, and the
\* marker pair and the terminator among its bytes.
AltPayload == <<63, 255, 255, 255, 199, 124, 1, 1, 124, 199, 128, 0>>

\* A payload whose first channel's bytes are M2 and M1.
EchoPayload == <<124, 199, 0, 2, 0, 3, 0, 4, 0, 5, 0, 6>>

\* The terminator 0x02 of the rejected reference packet.
BadTerminator == END_BYTE + 1

FrameKinds == {"ref", "alt", "bad"}

\* One device packet: two markers, the counter byte, the payload, a terminator.
DeviceFrame(kind, cnt) ==
    <<SYNC_BYTE_1, SYNC_BYTE_2, cnt % 256>>
        \o (IF kind = "alt" THEN AltPayload
            ELSE IF kind = "echo" THEN EchoPayload ELSE RefPayload)
        \o <<IF kind = "bad" THEN BadTerminator ELSE END_BYTE>>

\* Whether a device packet of this kind is well formed.
WellFormed(kind) == kind \in {"ref", "alt"}

\* The values of a noise byte: one that is no marker, and M1.
NoiseBytes == {0, SYNC_BYTE_1}
NoiseSeqs == UNION {[1..n -> NoiseBytes] : n \in 0..MaxNoise}

RECURSIVE Concat(_)
Concat(ss) == IF ss = <<>> THEN <<>> ELSE Head(ss) \o Concat(Tail(ss))

\* The stream made of the frames `kinds`, with `noise` inserted after the
\* first `gap` frames.
StreamBytes(kinds, noise, gap) ==
    Concat([i \in 1..(Len(kinds) + 1) |->
              (IF gap = i - 1 THEN noise ELSE <<>>)
                  \o (IF i <= Len(kinds) THEN DeviceFrame(kinds[i], i) ELSE <<>>)])

\* Where (0-based offset) each device frame starts in that stream, and its kind.
StreamLayout(kinds, noise, gap) ==
    [i \in 1..Len(kinds) |->
        [start |-> (i - 1) * PACKET_LEN + (IF gap < i THEN Len(noise) ELSE 0),
         kind  |-> kinds[i]]]

KindSeqs == UNION {[1..n -> FrameKinds] : n \in 0..MaxFrames}

\* The device outputs checked: up to MaxFrames frames, with up to MaxNoise
\* bytes of noise before, between or after them.
Sources ==
    {[bytes  |-> StreamBytes(ks, nz, g),
      layout |-> StreamLayout(ks, nz, g)] :
        ks \in KindSeqs, nz \in NoiseSeqs, g \in 0..MaxFrames}

\* The device outputs without inserted noise: frames back to back.
CleanSources ==
    {[bytes  |-> StreamBytes(ks, <<>>, 0),
      layout |-> StreamLayout(ks, <<>>, 0)] : ks \in KindSeqs}

\* What an idle device answers to the identification request: a short line
\* of text ("U", line feed).
Greeting == <<85, 10>>

\* The bytes that arrive after the input buffer was reset (line 61): the
\* frames of a device that is already streaming, with or without the answer
\* to the identification request before them.
BootSources ==
    {[bytes  |-> StreamBytes(ks, nz, 0),
      layout |-> StreamLayout(ks, nz, 0)] :
        ks \in KindSeqs, nz \in {<<>>, Greeting}}

\* The values a frame's counter byte takes in the outputs of CounterSources:
\* the counter runs through every byte value, M1 among them.
CounterValues == {0, SYNC_BYTE_1}

\* Device outputs of up to MaxFrames well-formed frames whose counter bytes
\* are chosen freely, received from the first byte or from up to MaxLead
\* bytes into the first frame (the device was already sending when the port
\* was opened).  A frame's start in the layout is negative when its first
\* bytes are missing.
CounterSources ==
    {[bytes  |-> LET all == Concat([i \in 1..Len(ks) |->
                                      DeviceFrame(ks[i], cs[i])])
                 IN  SubSeq(all, lead + 1, Len(all)),
      layout |-> [i \in 1..Len(ks) |->
                    [start |-> (i - 1) * PACKET_LEN - lead, kind |-> ks[i]]]] :
        ks \in UNION {[1..n -> {"ref", "echo"}] : n \in 1..MaxFrames},
        cs \in [1..MaxFrames -> CounterValues],
        lead \in 0..MaxLead}

\* What the transport delivers before a run of whole frames: nothing, a
\* noise byte, or a whole frame followed by a frame whose last bytes were
\* lost (which leaves the loop reading PACKET_LEN bytes from a wrong offset).
Disturbances ==
    {<<>>, <<0>>, <<SYNC_BYTE_1>>}
        \cup {DeviceFrame("ref", 0)
                  \o SubSeq(DeviceFrame("ref", 0), 1, PACKET_LEN - lost) :
              lost \in 1..MaxLost}

\* Device outputs that end in TailFrames well-formed frames, back to back,
\* with counters running up from 0 or from 1 and no M1 M2 pair except at the
\* frame starts.  The layout holds these frames only.
RecoverySources ==
    {[bytes  |-> d \o Concat([i \in 1..TailFrames |->
                                DeviceFrame("ref", c + i - 1)]),
      layout |-> [i \in 1..TailFrames |->
                    [start |-> Len(d) + (i - 1) * PACKET_LEN, kind |-> "ref"]]] :
        d \in Disturbances, c \in {0, END_BYTE}}

\* Byte values at the edges of the byte range and of the device's 14-bit
\* range (0x3F, 0x40).
ByteSamples == {0, 1, 63, 64, 255}

\* Payloads that differ from the reference payload in the two bytes of one
\* channel.
PayloadSamples ==
    {[i \in 1..(2 * NUM_CHANNELS) |->
         IF i = 2 * c - 1 THEN high ELSE IF i = 2 * c THEN low
         ELSE RefPayload[i]] :
        c \in 1..NUM_CHANNELS, high \in ByteSamples, low \in ByteSamples}

\* Device outputs of two frames, the second with a payload of PayloadSamples.
DecodeSources ==
    {[bytes  |-> DeviceFrame("ref", 0)
                     \o <<SYNC_BYTE_1, SYNC_BYTE_2, 1>> \o p \o <<END_BYTE>>,
      layout |-> <<[start |-> 0, kind |-> "ref"],
                   [start |-> PACKET_LEN, kind |-> "sample"]>>] :
        p \in PayloadSamples}

\* The lines printed before find_sync is first called (lines 57, 68, 73, 85).
StartupOutput == <<"Opening serial port", "Board replied to WHORU",
                   "Sent START command", "LSL stream created">>

\* The operations main performs on the serial port before it calls
\* find_sync, in the order of lines 65-71.
StartupLog == <<"WHORU", "read", "START">>

\* time.time() is read in ticks of 1.0 s, measured from the reading of line 92
\* (only differences of readings are used, line 119).  A wall clock may step
\* back, so a reading does not bound the next one.
StartClock == 0
ClockReadings == StartClock..MaxClock

\* ------------------------------------------------------------------------
\* State
\* ------------------------------------------------------------------------
VARIABLES
    stream,        \* the device's output, in emission order
    layout,        \* history: where the device's frames lie in `stream`
    pos,           \* bytes of `stream` consumed from the transport so far
    pc,            \* the bridge's position in the code
    ret,           \* the call site find_sync returns to: "startup" or "resync"
    data,          \* read_exact's `data`
    packet,        \* main's `packet`
    pktStart,      \* history: offset in `stream` of packet[0]
    syncFrom,      \* history: `pos` when the current find_sync call began
    values,        \* main's `values`
    sample_count,  \* main's `sample_count`
    last_report,   \* main's `last_report`
    clock,         \* the wall clock, where a specification lets it move
    exc,           \* the exception that ended main, or "none"
    ser_open,      \* the serial handle has not been closed
    outlet_open,   \* the LSL outlet has not been released
    synced,        \* history: per find_sync return, where its scan began
                   \* (from) and the offset of the frame it returned (start)
    rejected,      \* history: offsets of the packets that failed validation
    accepted,      \* history: offsets of the packets that passed validation
    published,     \* history: the samples handed to outlet.push_sample
    reports,       \* history: the sample counts printed by the rate reporter
    reply,         \* main's `reply`
    serlog,        \* history: the commands written to the serial port and the
                   \* reads of the reply, in order
    stdout,        \* history: the lines printed, in order
    block,         \* emg_kraken.py: arm, base_code and move_code of the block
    phase,         \* emg_kraken.py: the phase last announced in the block
    lsl_marker     \* emg_kraken.py: the marker last pushed by push_event_codes

vars == <<stream, layout, pos, pc, ret, data, packet, pktStart, syncFrom,
          values, sample_count, last_report, clock, exc, ser_open,
          outlet_open, synced, rejected, accepted, published, reports, reply, serlog,
          stdout, block, phase, lsl_marker>>

\* The state of the serial bridge (arduino_lsl_bridge.py).
bridge == <<stream, layout, pos, pc, ret, data, packet, pktStart, syncFrom,
            values, sample_count, last_report, clock, exc, ser_open,
            outlet_open, synced, rejected, accepted, published, reports,
            reply, serlog, stdout>>

\* The state of the stimulus script (emg_kraken.py), a program of its own.
stim == <<block, phase, lsl_marker>>

\* What the handshake leaves behind.
boot == <<reply, serlog>>

ghost == <<synced, rejected, accepted, published, reports>>

\* ------------------------------------------------------------------------
\* The transport: ser.read(n)
\* ------------------------------------------------------------------------
Min(a, b) == IF a < b THEN a ELSE b

\* The numbers of bytes one ser.read(n) may return: none when the read times
\* out, at most n, at most what the device has sent.
ReadSizes(n) == 0..Min(n, Len(stream) - pos)

\* The k bytes a read returns: the next k bytes of the stream.
Chunk(k) == SubSeq(stream, pos + 1, pos + k)

\* find_sync (lines 39-53) run from read position i with no read timing out:
\* the offset of the frame it returns, or -1 when it never returns.
RECURSIVE ScanIn(_, _)
ScanIn(s, i) ==
    IF i >= Len(s) THEN 0 - 1
    ELSE IF s[i + 1] /= SYNC_BYTE_1 THEN ScanIn(s, i + 1)
    ELSE IF i + 1 >= Len(s) THEN 0 - 1
    ELSE IF s[i + 2] /= SYNC_BYTE_2 THEN ScanIn(s, i + 2)
    ELSE IF i + PACKET_LEN <= Len(s) THEN i ELSE 0 - 1

ScanFrom(i) == ScanIn(stream, i)

\* ------------------------------------------------------------------------
\* Pure helpers of main
\* ------------------------------------------------------------------------
\* Faulty variant of Valid: the terminator is not checked.
ValidNoTerminator(p) == ~(p[1] /= SYNC_BYTE_1 \/ p[2] /= SYNC_BYTE_2)

\* Line 99 negated: the packet passes the sanity checks.
Valid(p) ==
    ~(p[1] /= SYNC_BYTE_1 \/ p[2] /= SYNC_BYTE_2 \/ p[Len(p)] /= END_BYTE)

\* Python's x << n and x | y on non-negative integers.
ShiftLeft(x, n) == x * 2^n

RECURSIVE BitOr(_, _)
BitOr(x, y) ==
    IF x = 0 THEN y
    ELSE IF y = 0 THEN x
    ELSE (IF x % 2 = 1 \/ y % 2 = 1 THEN 1 ELSE 0) + 2 * BitOr(x \div 2, y \div 2)

RECURSIVE BitLen(_)
BitLen(x) == IF x = 0 THEN 0 ELSE 1 + BitLen(x \div 2)

\* The value a non-negative integer takes in the stream's 'float32' channel
\* format (line 81): rounded to a 24-bit significand, ties to even.  float(raw)
\* of line 111 is a double, exact on everything float32 can hold.
ToFloat32(x) ==
    LET e == BitLen(x) - 24
    IN  IF e <= 0 THEN x
        ELSE LET u == 2^e
                 q == x \div u
                 r == x % u
             IN  u * (IF 2 * r > u \/ (2 * r = u /\ q % 2 = 1) THEN q + 1 ELSE q)

\* Faulty variant of DecodeChannel: the two bytes are read low byte first.
DecodeChannelLittleEndian(p, offset) ==
    LET high == p[offset + 2]
        low  == p[offset + 1]
        raw  == BitOr(ShiftLeft(high, 8), low)
    IN  ToFloat32(raw)

\* Faulty variant of DecodeChannel: the value is cut to the device's 14 bits.
DecodeChannelMasked(p, offset) ==
    LET high == p[offset + 1]
        low  == p[offset + 2]
        raw  == BitOr(ShiftLeft(high, 8), low) % 2^14
    IN  ToFloat32(raw)

\* Lines 108-111 for the channel read at 0-based `offset`.
DecodeChannel(p, offset) ==
    LET high == p[offset + 1]
        low  == p[offset + 2]
        raw  == BitOr(ShiftLeft(high, 8), low)
    IN  ToFloat32(raw)

\* Faulty variant of Decode: the channels are read from the counter byte on.
DecodeFromCounter(p) ==
    [i \in 1..NUM_CHANNELS |-> DecodeChannel(p, 2 + 2 * (i - 1))]

\* Lines 105-112: offset starts at 3 and advances by 2 per channel.
Decode(p) == [i \in 1..NUM_CHANNELS |-> DecodeChannel(p, 3 + 2 * (i - 1))]

\* main's loop (lines 94-115) run on the byte stream s from read position p
\* with no read timing out: the packets it reads, in order, each with its
\* offset, whether it passed line 99, and the values pushed for it.
RECURSIVE LoopFrom(_, _)
LoopFrom(s, p) ==
    IF p + PACKET_LEN > Len(s) THEN <<>>
    ELSE LET pkt == SubSeq(s, p + 1, p + PACKET_LEN)
         IN  IF Valid(pkt)
             THEN <<[start |-> p, ok |-> TRUE, values |-> Decode(pkt)]>>
                      \o LoopFrom(s, p + PACKET_LEN)
             ELSE LET q == ScanIn(s, p + PACKET_LEN)
                  IN  <<[start |-> p, ok |-> FALSE, values |-> <<>>]>>
                          \o (IF q < 0 THEN <<>>
                              ELSE LoopFrom(s, q + PACKET_LEN))

\* Lines 88-115 on the byte stream s: find_sync, then the loop.
RunOn(s) ==
    LET q == ScanIn(s, 0)
    IN  IF q < 0 THEN <<>> ELSE LoopFrom(s, q + PACKET_LEN)

\* Line 119: a throughput line is due.
\* Faulty variant of ReportDue: a line is due only once more than the interval
\* has passed.
ReportDueLate(now, last) == now - last > REPORT_INTERVAL

ReportDue(now, last) == now - last >= REPORT_INTERVAL

\* The stimulus script before its first block (emg_kraken.py, line 617).
NoBlock == [arm |-> "none", base_code |-> 0, move_code |-> 0]

StimIdle ==
    /\ block = NoBlock
    /\ phase = "none"
    /\ lsl_marker = 0

\* ------------------------------------------------------------------------
\* Initial state: the port is open, the handshake is done, the outlet exists,
\* main is about to call find_sync (line 88).  `stream` holds what the device
\* sends after the handshake reply was read (line 67); `reply`, which no
\* line reads after line 68, is taken to be empty.
\* ------------------------------------------------------------------------
InitFrom(sources) ==
    /\ \E s \in sources : stream = s.bytes /\ layout = s.layout
    /\ pos = 0
    /\ pc = "find_sync_b"
    /\ ret = "startup"
    /\ data = <<>>
    /\ packet = <<>>
    /\ pktStart = 0
    /\ syncFrom = 0
    /\ values = <<>>
    /\ sample_count = 0
    /\ last_report = StartClock
    /\ clock = StartClock
    /\ exc = "none"
    /\ ser_open = TRUE
    /\ outlet_open = TRUE
    /\ synced = <<>>
    /\ rejected = <<>>
    /\ accepted = <<>>
    /\ published = <<>>
    /\ reports = <<>>
    /\ reply = <<>>
    /\ serlog = StartupLog
    /\ stdout = StartupOutput
    /\ StimIdle

Init == InitFrom(Sources)

\* The same, on the device outputs with freely chosen counter bytes.
InitCounter == InitFrom(CounterSources)

\* The same, on the device outputs without inserted noise.
InitStop == InitFrom(CleanSources)

\* ------------------------------------------------------------------------
\* The handshake (lines 64-85)
\* ------------------------------------------------------------------------
\* The state after lines 57-62: the port is open, its buffers were reset,
\* nothing has been written.
InitBoot ==
    /\ \E s \in BootSources : stream = s.bytes /\ layout = s.layout
    /\ pos = 0
    /\ pc = "whoru_write"
    /\ ret = "startup"
    /\ data = <<>>
    /\ packet = <<>>
    /\ pktStart = 0
    /\ syncFrom = 0
    /\ values = <<>>
    /\ sample_count = 0
    /\ last_report = StartClock
    /\ clock = StartClock
    /\ exc = "none"
    /\ ser_open = TRUE
    /\ outlet_open = FALSE
    /\ synced = <<>>
    /\ rejected = <<>>
    /\ accepted = <<>>
    /\ published = <<>>
    /\ reports = <<>>
    /\ reply = <<>>
    /\ serlog = <<>>
    /\ stdout = <<"Opening serial port">>
    /\ StimIdle

\* Faulty variant of SerWrite: the command goes out twice.
SerWriteTwice(log, cmd) == log \o <<cmd, cmd>>

\* ser.write(cmd) (lines 65, 71), as recorded in the log.
SerWrite(log, cmd) == Append(log, cmd)

\* Line 65: ser.write(b"WHORU\n"), then the sleep of line 66.
WriteWhoru ==
    /\ pc = "whoru_write"
    /\ serlog' = SerWrite(serlog, "WHORU")
    /\ pc' = "whoru_read"
    /\ UNCHANGED <<clock, stream, layout, pos, ret, data, packet, pktStart, syncFrom,
                   values, sample_count, last_report, exc, ser_open,
                   outlet_open, ghost, reply>>
    /\ UNCHANGED stdout
    /\ UNCHANGED stim

\* Line 67: the size asked for is `ser.in_waiting or 1`.
ReplyRequest(waiting) == IF waiting = 0 THEN 1 ELSE waiting

\* Faulty variant of AfterReply: an empty reply is waited for again.
AfterReplyRetry(r) == IF r = <<>> THEN "whoru_read" ELSE "start_write"

\* Lines 67-71: where main goes once the read of the reply has returned r.
\* The reply is decoded with errors="ignore", stripped and printed; nothing
\* branches on it.
AfterReply(r) == "start_write"

\* Lines 67-68: one read of the reply.  The bytes in_waiting reports are
\* buffered and returned at once; with none waiting, the read of one byte
\* returns that byte or, after the timeout, nothing.
ReadReply ==
    /\ pc = "whoru_read"
    /\ \E waiting \in 0..Min(MaxReply, Len(stream) - pos) :
         \E k \in {j \in ReadSizes(ReplyRequest(waiting)) : j >= waiting} :
             /\ reply' = Chunk(k)
             /\ pos' = pos + k
    /\ serlog' = Append(serlog, "read")
    /\ pc' = AfterReply(reply')
    /\ UNCHANGED <<clock, stream, layout, ret, data, packet, pktStart, syncFrom,
                   values, sample_count, last_report, exc, ser_open,
                   outlet_open, ghost>>
    /\ stdout' = Append(stdout, "Board replied to WHORU")
    /\ UNCHANGED stim

\* Lines 71-73: ser.write(b"START\n"); ser.flush().
WriteStart ==
    /\ pc = "start_write"
    /\ serlog' = SerWrite(serlog, "START")
    /\ pc' = "create_outlet"
    /\ UNCHANGED <<clock, stream, layout, pos, ret, data, packet, pktStart, syncFrom,
                   values, sample_count, last_report, exc, ser_open,
                   outlet_open, ghost, reply>>
    /\ stdout' = Append(stdout, "Sent START command")
    /\ UNCHANGED stim

\* Lines 76-88: the outlet is created and main calls find_sync, which scans
\* from the transport's read position.
CreateOutlet ==
    /\ pc = "create_outlet"
    /\ outlet_open' = TRUE
    /\ syncFrom' = pos
    /\ pc' = "find_sync_b"
    /\ UNCHANGED <<clock, stream, layout, pos, ret, data, packet, pktStart,
                   values, sample_count, last_report, exc, ser_open,
                   ghost, boot>>
    /\ stdout' = Append(stdout, "LSL stream created")
    /\ UNCHANGED stim

\* ------------------------------------------------------------------------
\* find_sync (lines 39-53)
\* ------------------------------------------------------------------------
\* Faulty variant of AfterFindSyncB: a read that times out ends the search.
AfterFindSyncBGiveUp(b) ==
    IF b = <<>> THEN "stopped"
    ELSE IF b[1] /= SYNC_BYTE_1 THEN "find_sync_b" ELSE "find_sync_b2"

\* Faulty variant of AfterFindSyncB: M1 is not recognised.
AfterFindSyncBDeaf(b) == "find_sync_b"

\* Lines 43-46: where find_sync goes after reading b.
AfterFindSyncB(b) ==
    IF b = <<>> \/ b[1] /= SYNC_BYTE_1 THEN "find_sync_b" ELSE "find_sync_b2"

\* Lines 42-46: b = ser.read(1); an empty read or a byte other than M1
\* restarts the loop.
FindSyncB ==
    /\ pc = "find_sync_b"
    /\ \E k \in ReadSizes(1) :
         LET b == Chunk(k)
         IN  /\ pos' = pos + k
             /\ pc' = AfterFindSyncB(b)
    /\ UNCHANGED <<boot, clock, stream, layout, ret, data, packet, pktStart, syncFrom, values,
                   sample_count, last_report, exc, ser_open, outlet_open, ghost>>
    /\ UNCHANGED stdout
    /\ UNCHANGED stim

\* Lines 47-50: b2 = ser.read(1); an empty read or a byte other than M2
\* restarts the loop at line 42, and b2 is not looked at again.
FindSyncB2 ==
    /\ pc = "find_sync_b2"
    /\ \E k \in ReadSizes(1) :
         LET b2 == Chunk(k)
         IN  /\ pos' = pos + k
             /\ pc' = IF b2 = <<>> \/ b2[1] /= SYNC_BYTE_2
                      THEN "find_sync_b" ELSE "find_sync_rest"
    /\ UNCHANGED <<boot, clock, stream, layout, ret, data, packet, pktStart, syncFrom, values,
                   sample_count, last_report, exc, ser_open, outlet_open, ghost>>
    /\ UNCHANGED stdout
    /\ UNCHANGED stim

\* read_exact (lines 28-36), one pass of its loop: ask for the bytes still
\* missing of n, append what came.
\* Faulty variant of ReadExactRequest: every pass asks for all n bytes.
ReadExactRequestWhole(n) == n

ReadExactRequest(n) == n - Len(data)
ReadExactData(k) == data \o Chunk(k)

\* Faulty variant of SyncOutput: every return of find_sync is announced.
SyncOutputAlways(site) == <<"Sync found">>

\* What main prints when find_sync has returned to a call site: line 89 at
\* startup, nothing at lines 101-102.
SyncOutput(site) == IF site = "startup" THEN <<"Sync found">> ELSE <<>>

\* Faulty variant of SyncFrame: the two marker bytes are left out.
SyncFrameRestOnly(rest) == rest

\* Line 53: what find_sync returns, given the bytes read by line 52.
SyncFrame(rest) == <<SYNC_BYTE_1, SYNC_BYTE_2>> \o rest

\* Faulty variant of AfterFindSync: the frame find_sync returned goes to the
\* checks of line 99.
AfterFindSyncValidate(site) == "validate"

\* Where main goes with the frame find_sync returned: from line 88 through
\* lines 89-92, from line 101 through `continue`, both times to the read of
\* line 96, which assigns `packet` anew.
AfterFindSync(site) == "read_packet"

\* Lines 52-53, and the return to the caller: at startup lines 88-92, on a
\* resynchronization lines 101-102.
FindSyncRest ==
    /\ pc = "find_sync_rest"
    /\ \E k \in ReadSizes(ReadExactRequest(PACKET_LEN - 2)) :
         LET d == ReadExactData(k)
         IN  /\ pos' = pos + k
             /\ IF Len(d) < PACKET_LEN - 2
                THEN /\ data' = d
                     /\ UNCHANGED <<pc, packet, pktStart, sample_count,
                                    last_report, synced>>
                ELSE /\ data' = <<>>
                     /\ packet' = SyncFrame(d)
                     /\ pktStart' = pos' - PACKET_LEN
                     /\ synced' = Append(synced, [from |-> syncFrom,
                                                  start |-> pktStart'])
                     /\ pc' = AfterFindSync(ret)
                     /\ IF ret = "startup"
                        THEN /\ sample_count' = 0
                             /\ last_report' = StartClock
                        ELSE UNCHANGED <<sample_count, last_report>>
    /\ UNCHANGED <<boot, clock, stream, layout, ret, syncFrom, values, exc, ser_open,
                   outlet_open, rejected, accepted, published, reports>>
    /\ stdout' = IF pc' /= pc THEN stdout \o SyncOutput(ret) ELSE stdout
    /\ UNCHANGED stim

\* ------------------------------------------------------------------------
\* main's loop (lines 94-121)
\* ------------------------------------------------------------------------
\* Line 96: packet = read_exact(ser, PACKET_LEN).
ReadPacket ==
    /\ pc = "read_packet"
    /\ \E k \in ReadSizes(ReadExactRequest(PACKET_LEN)) :
         LET d == ReadExactData(k)
         IN  /\ pos' = pos + k
             /\ IF Len(d) < PACKET_LEN
                THEN /\ data' = d
                     /\ UNCHANGED <<pc, packet, pktStart>>
                ELSE /\ data' = <<>>
                     /\ packet' = d
                     /\ pktStart' = pos' - PACKET_LEN
                     /\ pc' = "validate"
    /\ UNCHANGED <<boot, clock, stream, layout, ret, syncFrom, values, sample_count,
                   last_report, exc, ser_open, outlet_open, ghost>>
    /\ UNCHANGED stdout
    /\ UNCHANGED stim

\* Faulty variant of AfterValidate: a failed packet is followed by the next
\* fixed-size read, without a call of find_sync.
AfterValidateNoResync(ok) == IF ok THEN "decode" ELSE "read_packet"

\* Faulty variant of AfterValidate: a packet that passed goes back to the head
\* of the loop, undecoded.
AfterValidateDrop(ok) == IF ok THEN "read_packet" ELSE "find_sync_b"

\* Lines 99-104: where main goes after the sanity checks.
AfterValidate(ok) == IF ok THEN "decode" ELSE "find_sync_b"

\* Lines 99-102: a packet that fails the checks sends main back to find_sync,
\* which scans on from the transport's read position.
Validate ==
    /\ pc = "validate"
    /\ pc' = AfterValidate(Valid(packet))
    /\ IF Valid(packet)
       THEN /\ accepted' = Append(accepted, pktStart)
            /\ UNCHANGED <<ret, syncFrom, rejected>>
       ELSE /\ ret' = "resync"
            /\ syncFrom' = pos
            /\ rejected' = Append(rejected, pktStart)
            /\ UNCHANGED accepted
    /\ UNCHANGED <<boot, clock, stream, layout, pos, data, packet, pktStart, values,
                   sample_count, last_report, exc, ser_open, outlet_open,
                   synced, published, reports>>
    /\ UNCHANGED stdout
    /\ UNCHANGED stim

\* Lines 105-112.
DecodeStep ==
    /\ pc = "decode"
    /\ values' = Decode(packet)
    /\ pc' = "push"
    /\ UNCHANGED <<boot, clock, stream, layout, pos, ret, data, packet, pktStart, syncFrom,
                   sample_count, last_report, exc, ser_open, outlet_open, ghost>>
    /\ UNCHANGED stdout
    /\ UNCHANGED stim

\* The sample the sink receives, with the packet it came from and the
\* acquisition index it is given.
Sample(start, frame, vals, count) ==
    [start |-> start, frame |-> frame, values |-> vals, index |-> count]

\* Line 114: outlet.push_sample(values) returns.
Push ==
    /\ pc = "push"
    /\ published' = Append(published,
                           Sample(pktStart, packet, values, sample_count))
    /\ pc' = "count"
    /\ UNCHANGED <<boot, clock, stream, layout, pos, ret, data, packet, pktStart, syncFrom, values,
                   sample_count, last_report, exc, ser_open, outlet_open,
                   synced, rejected, accepted, reports>>
    /\ UNCHANGED stdout
    /\ UNCHANGED stim

\* Faulty variant of NextCount: the count is not advanced.
NextCountStuck(c) == c

\* Faulty variant of NextCount: a publish is counted twice.
NextCountTwice(c) == c + 2

\* Line 115.
NextCount(c) == c + 1

Count ==
    /\ pc = "count"
    /\ sample_count' = NextCount(sample_count)
    /\ pc' = "report"
    /\ UNCHANGED <<boot, clock, stream, layout, pos, ret, data, packet, pktStart, syncFrom, values,
                   last_report, exc, ser_open, outlet_open, ghost>>
    /\ UNCHANGED stdout
    /\ UNCHANGED stim

\* Line 120: the throughput line.
RateLine == "pushed EMG samples"

\* Faulty variant of Report: the count is printed per interval, and is set
\* back to zero when a line is printed.
ReportResetsCount ==
    /\ pc = "report"
    /\ \E now \in ClockReadings :
         IF ReportDue(now, last_report)
         THEN /\ last_report' = now
              /\ reports' = Append(reports, sample_count)
              /\ stdout' = Append(stdout, RateLine)
              /\ sample_count' = 0
         ELSE UNCHANGED <<last_report, reports, stdout, sample_count>>
    /\ pc' = "read_packet"
    /\ UNCHANGED <<boot, clock, stream, layout, pos, ret, data, packet, pktStart,
                   syncFrom, values, exc, ser_open, outlet_open,
                   synced, rejected, accepted, published>>
    /\ UNCHANGED stim

\* Lines 119-121 with `now` as read at line 118: print and restart the
\* interval when due.
ReportAt(now) ==
    /\ pc = "report"
    /\ IF ReportDue(now, last_report)
       THEN /\ last_report' = now
            /\ reports' = Append(reports, sample_count)
            /\ stdout' = Append(stdout, RateLine)
       ELSE UNCHANGED <<last_report, reports, stdout>>
    /\ pc' = "read_packet"
    /\ UNCHANGED <<boot, clock, stream, layout, pos, ret, data, packet, pktStart, syncFrom, values,
                   sample_count, exc, ser_open, outlet_open,
                   synced, rejected, accepted, published>>
    /\ UNCHANGED stim

\* Lines 118-121: now = time.time(), which may be any reading.
Report == \E now \in ClockReadings : ReportAt(now)

\* ------------------------------------------------------------------------
\* The end of the bridge (lines 124-128)
\* ------------------------------------------------------------------------
SerialPcs == {"find_sync_b", "find_sync_b2", "find_sync_rest", "read_packet"}
RunningPcs == SerialPcs \cup {"validate", "decode", "push", "count", "report"}

\* What can be raised at a position of the code: the stop signal anywhere, a
\* transport failure by a ser.read, a rejection by outlet.push_sample.
Raisable(p) ==
    {"KeyboardInterrupt"}
        \cup (IF p \in SerialPcs THEN {"SerialException"} ELSE {})
        \cup (IF p = "push" THEN {"SinkError"} ELSE {})

\* Faulty variant of AfterRaise: a rejection by the sink is swallowed and the
\* loop goes on with the rate report.
AfterRaiseSwallow(e) == IF e = "SinkError" THEN "report" ELSE "stopped"

\* Lines 124-128: where the program is after exception e left main.  No
\* handler resumes the loop.
AfterRaise(e) == "stopped"

\* Lines 125-128: what is printed when exception e has left main.
StopOutput(e) == IF e = "KeyboardInterrupt" THEN <<"Stopping bridge.">> ELSE <<>>

\* An exception leaves main.  Lines 125-128 catch KeyboardInterrupt and print;
\* anything else is not caught.  Either way the interpreter then ends.  No
\* line closes the serial handle or releases the outlet.
Raise ==
    /\ pc \in RunningPcs
    /\ \E e \in Raisable(pc) : exc' = e /\ pc' = AfterRaise(e)
    /\ UNCHANGED <<boot, clock, stream, layout, pos, ret, data, packet, pktStart, syncFrom, values,
                   sample_count, last_report, ser_open, outlet_open, ghost>>
    /\ stdout' = stdout \o StopOutput(exc')
    /\ UNCHANGED stim

Next ==
    \/ FindSyncB
    \/ FindSyncB2
    \/ FindSyncRest
    \/ ReadPacket
    \/ Validate
    \/ DecodeStep
    \/ Push
    \/ Count
    \/ Report

\* The bridge running undisturbed on every device output of Sources.
Spec == Init /\ [][Next]_vars

\* The bridge with a stop signal, a transport failure or a sink failure
\* possible at every step.
NextStop == Next \/ Raise

SpecStop == InitStop /\ [][NextStop]_vars

\* No read of the transport times out: each returns at least one byte.
Prompt == pc \in SerialPcs => pos' > pos

\* The bridge on a transport whose reads never time out.
NextCounter ==
    \/ FindSyncB /\ Prompt
    \/ FindSyncB2 /\ Prompt
    \/ FindSyncRest /\ Prompt
    \/ ReadPacket /\ Prompt
    \/ Validate
    \/ DecodeStep
    \/ Push
    \/ Count
    \/ Report

SpecCounter == InitCounter /\ [][NextCounter]_vars

\* Time passes while the loop runs: the wall clock moves to another reading
\* (it may step back).  Readings are measured from line 92, so the clock
\* stands at StartClock until the first find_sync has returned.
Tick ==
    /\ pc \in RunningPcs
    /\ synced /= <<>>
    /\ clock' \in ClockReadings \ {clock}
    /\ UNCHANGED <<boot, stream, layout, pos, pc, ret, data, packet, pktStart,
                   syncFrom, values, sample_count, last_report, exc,
                   ser_open, outlet_open, ghost>>
    /\ UNCHANGED stdout
    /\ UNCHANGED stim

\* The bridge with the wall clock moving between its steps; line 118 reads
\* the clock as it stands.
NextClock ==
    \/ FindSyncB
    \/ FindSyncB2
    \/ FindSyncRest
    \/ ReadPacket
    \/ Validate
    \/ DecodeStep
    \/ Push
    \/ Count
    \/ ReportAt(clock)
    \/ Tick

SpecClock == InitStop /\ [][NextClock]_vars

\* The bridge on a transport that keeps delivering: no read times out, and
\* the loop keeps running (line 94, `while True`).
InitRecover == InitFrom(RecoverySources)

NextRecover ==
    \/ FindSyncB /\ Prompt
    \/ FindSyncB2 /\ Prompt
    \/ FindSyncRest /\ Prompt
    \/ ReadPacket /\ Prompt
    \/ Validate
    \/ DecodeStep
    \/ Push
    \/ Count
    \/ Report

SpecRecover == InitRecover /\ [][NextRecover]_vars /\ WF_vars(NextRecover)

\* The bridge decoding the payloads of DecodeSources.
InitDecode == InitFrom(DecodeSources)

NextDecode ==
    \/ FindSyncB /\ Prompt
    \/ FindSyncB2 /\ Prompt
    \/ FindSyncRest /\ Prompt
    \/ ReadPacket /\ Prompt
    \/ Validate
    \/ DecodeStep
    \/ Push
    \/ Count
    \/ Report

SpecDecode == InitDecode /\ [][NextDecode]_vars

\* ------------------------------------------------------------------------
\* The stimulus script's markers (emg_kraken.py, lines 20-86, 617-778)
\* ------------------------------------------------------------------------
PHASE == [cue |-> 1, prep |-> 3, move |-> 5, return |-> 7, iti |-> 9]
ARM_CODES == [Left |-> 1, Right |-> 2]
BASELINE_NAMES == {1, 2, 3}
REST_CODES == [eyes_open |-> 9701, eyes_closed |-> 9702]

\* MOVEMENTS[mkey]["code"]: the movement codes, of at most two digits.
MOVE_CODES == 0..99

\* The codes pushed outside push_event_codes: the test ping, the ready and
\* end signals, the resting-state codes.
CONTROL_CODES == {9999, 8888, 8899, REST_CODES.eyes_open, REST_CODES.eyes_closed}

\* Faulty variant of make_marker: the baseline code is given the tens place.
make_marker_tens(phase_code, arm_code, base_code, move_code) ==
    phase_code * 10000 + arm_code * 1000 + base_code * 10 + move_code

make_marker(phase_code, arm_code, base_code, move_code) ==
    phase_code * 10000 + arm_code * 1000 + base_code * 100 + move_code

\* Lines 618-620: a block begins with an arm and a movement, whose codes are
\* looked up.
StartBlock ==
    /\ phase \in {"none", "move", "return", "iti"}
    /\ \E a \in DOMAIN ARM_CODES, b \in BASELINE_NAMES, m \in MOVE_CODES :
         block' = [arm |-> a, base_code |-> b, move_code |-> m]
    /\ phase' = "start"
    /\ UNCHANGED <<lsl_marker, bridge>>

\* The phases that can follow a phase within a block: the cue once, then per
\* repetition prep, move and, when configured, return and iti.
NextPhases(ph) ==
    IF ph = "start" THEN {"cue"}
    ELSE IF ph = "cue" THEN {"prep"}
    ELSE IF ph = "prep" THEN {"move"}
    ELSE IF ph = "move" THEN {"return", "iti", "prep"}
    ELSE IF ph = "return" THEN {"iti", "prep"}
    ELSE IF ph = "iti" THEN {"prep"}
    ELSE {}

\* push_event_codes (lines 66-82), called at lines 652, 687, 714, 744, 775.
push_event_codes ==
    /\ \E ph \in NextPhases(phase) :
         /\ phase' = ph
         /\ lsl_marker' = make_marker(PHASE[ph], ARM_CODES[block.arm],
                                      block.base_code, block.move_code)
    /\ UNCHANGED <<block, bridge>>

\* The stimulus script running its blocks; the bridge is left aside.
IdleSource == [bytes |-> <<>>, layout |-> <<>>]
InitMarker == InitFrom({IdleSource})

NextMarker ==
    \/ StartBlock
    \/ push_event_codes

SpecMarker == InitMarker /\ [][NextMarker]_vars

\* The bridge from the handshake on.
NextBoot ==
    \/ WriteWhoru
    \/ ReadReply
    \/ WriteStart
    \/ CreateOutlet
    \/ Next

SpecBoot == InitBoot /\ [][NextBoot]_vars

\* ------------------------------------------------------------------------
\* Properties
\* ------------------------------------------------------------------------
\* The bytes of the stream from 0-based offset `start`, PACKET_LEN of them.
FrameAt(start) == SubSeq(stream, start + 1, start + PACKET_LEN)

FindSyncPcs == {"find_sync_b", "find_sync_b2", "find_sync_rest"}

PublishedStarts == [n \in DOMAIN published |-> published[n].start]

\* The stream's first device frame is directly preceded by an M1 byte.
OverlapCase ==
    /\ layout /= <<>>
    /\ layout[1].start >= 1
    /\ stream[layout[1].start] = SYNC_BYTE_1

\* C1 (overlap safety): when an M1 byte immediately precedes the first real
\* marker pair of the stream, the startup find_sync does not discard that
\* marker pair while searching, and the frame it returns is the one that
\* starts at the real marker pair.
C1_OverlapSafety ==
    OverlapCase =>
        /\ (pc = "find_sync_b" /\ synced = <<>>) => pos <= layout[1].start
        /\ synced /= <<>> => synced[1].start = layout[1].start

\* The stream is k >= 0 noise bytes followed by exactly one well-formed
\* frame, and no marker pair in the noise is followed by a valid terminator
\* at the frame's last offset.
SingleFrameCase ==
    /\ Len(layout) = 1
    /\ WellFormed(layout[1].kind)
    /\ Len(stream) = layout[1].start + PACKET_LEN
    /\ \A o \in 0..(layout[1].start - 1) :
          ~(/\ stream[o + 1] = SYNC_BYTE_1
            /\ stream[o + 2] = SYNC_BYTE_2
            /\ stream[o + PACKET_LEN] = END_BYTE)

\* C2 (resync correctness): on k noise bytes followed by exactly one
\* well-formed frame, find_sync does not discard the frame's marker while
\* searching, and what it returns is exactly that frame, with all noise and
\* nothing after the frame consumed.
C2_ResyncCorrectness ==
    SingleFrameCase =>
        /\ (pc = "find_sync_b" /\ synced = <<>>) => pos <= layout[1].start
        /\ synced /= <<>> =>
              /\ synced[1].start = layout[1].start
              /\ pos = layout[1].start + PACKET_LEN
              /\ packet = FrameAt(layout[1].start)

\* C3 (rejection does not desynchronize): once main has rejected a device
\* frame whose markers are right and whose terminator is wrong, and is back
\* at the head of its loop past the well-formed frame that directly follows,
\* that frame has been published with its channel values.
C3_RejectionKeepsSync ==
    \A i \in DOMAIN layout :
        (/\ i + 1 \in DOMAIN layout
         /\ layout[i].kind = "bad"
         /\ \E n \in DOMAIN rejected : rejected[n] = layout[i].start
         /\ WellFormed(layout[i + 1].kind)
         /\ layout[i + 1].start = layout[i].start + PACKET_LEN
         /\ pc = "read_packet"
         /\ pos >= layout[i + 1].start + PACKET_LEN)
        => \E n \in DOMAIN published :
              /\ published[n].start = layout[i + 1].start
              /\ published[n].values = Decode(FrameAt(layout[i + 1].start))

\* C4 (validation gates publishing): every published sample comes from
\* PACKET_LEN consecutive bytes of the stream that begin with M1 M2 and end
\* with the terminator; no rejected packet, and no device frame with the
\* terminator 0x02, is the origin of a published sample; the sample count
\* never exceeds the number of published samples.
C4_ValidationGatesPublishing ==
    /\ \A n \in DOMAIN published :
          LET f == published[n].frame
          IN  /\ Len(f) = PACKET_LEN
              /\ f = FrameAt(published[n].start)
              /\ f[1] = SYNC_BYTE_1
              /\ f[2] = SYNC_BYTE_2
              /\ f[PACKET_LEN] = END_BYTE
    /\ \A n \in DOMAIN published, m \in DOMAIN rejected :
          published[n].start /= rejected[m]
    /\ \A n \in DOMAIN published, i \in DOMAIN layout :
          layout[i].kind = "bad" => published[n].start /= layout[i].start
    /\ sample_count <= Len(published)

\* A sample has been published and counted, and a device frame with the
\* terminator 0x02 has been read by the loop and rejected.
C4_Witness ==
    /\ published /= <<>>
    /\ sample_count >= 1
    /\ \E i \in DOMAIN layout, m \in DOMAIN rejected :
          layout[i].kind = "bad" /\ rejected[m] = layout[i].start

\* C5 (big-endian decode): every published sample has NUM_CHANNELS values,
\* value i being 256 * frame[3 + 2i] + frame[4 + 2i] (0-based offsets) of the
\* packet it came from; packets with the same payload bytes give the same
\* values; the reference payload gives 1, 2, 3, 4, 5, 6.
C5_DecodeBigEndian ==
    /\ \A n \in DOMAIN published :
          LET f == published[n].frame
              v == published[n].values
          IN  /\ DOMAIN v = 1..NUM_CHANNELS
              /\ \A i \in 0..(NUM_CHANNELS - 1) :
                    v[i + 1] = 256 * f[3 + 2 * i + 1] + f[4 + 2 * i + 1]
              /\ (SubSeq(f, 4, PACKET_LEN - 1) = RefPayload
                    => v = <<1, 2, 3, 4, 5, 6>>)
    /\ \A m, n \in DOMAIN published :
          SubSeq(published[m].frame, 4, PACKET_LEN - 1)
              = SubSeq(published[n].frame, 4, PACKET_LEN - 1)
          => published[m].values = published[n].values

\* The reference packet and a packet with values above the 14-bit range have
\* both been decoded and published.
C5_Witness ==
    /\ \E n \in DOMAIN published : published[n].values = <<1, 2, 3, 4, 5, 6>>
    /\ \E n \in DOMAIN published :
          /\ published[n].values[1] = 16383
          /\ published[n].values[2] = 65535
          /\ published[n].values[3] = 51068

\* C6 (ordering): the published samples are, in order, the packets that
\* passed validation, in the order they lie in the stream, each once; the
\* acquisition indices of successive samples strictly increase.
C6_Ordering ==
    /\ Len(published) <= Len(accepted)
    /\ \A n \in DOMAIN published : published[n].start = accepted[n]
    /\ \A m, n \in DOMAIN published :
          m < n => /\ published[m].start < published[n].start
                   /\ published[m].index < published[n].index

\* Two samples have been published.
C6_Witness == Len(published) >= 2

\* C7 (whole-frame discard): after a packet fails validation the bridge is
\* in find_sync before it reads a packet with a fixed-size read again (the
\* returns of find_sync number one more than the rejections whenever the loop
\* is outside find_sync), and each such find_sync scans from the first byte
\* after the rejected packet, so no byte of it is read again.
C7_WholeFrameDiscard ==
    /\ pc \in {"read_packet", "validate", "decode", "push", "count", "report"}
          => Len(synced) = Len(rejected) + 1
    /\ pc \in FindSyncPcs =>
          /\ Len(synced) = Len(rejected)
          /\ pos >= syncFrom
          /\ rejected /= <<>> =>
                syncFrom = rejected[Len(rejected)] + PACKET_LEN
    /\ \A n \in DOMAIN rejected :
          /\ pos >= rejected[n] + PACKET_LEN
          /\ n + 1 \in DOMAIN synced =>
                /\ synced[n + 1].from = rejected[n] + PACKET_LEN
                /\ synced[n + 1].start >= rejected[n] + PACKET_LEN

\* A packet has been rejected and find_sync has returned since.
C7_Witness == rejected /= <<>> /\ Len(synced) = Len(rejected) + 1

\* C8 (timeouts are transparent): every frame find_sync returns is the one
\* it returns from the same read position when no read times out, and while
\* it searches it has not discarded the marker of that frame.
C8_TimeoutsTransparent ==
    /\ \A n \in DOMAIN synced : synced[n].start = ScanFrom(synced[n].from)
    /\ (pc = "find_sync_b" /\ ScanFrom(syncFrom) >= 0)
          => pos <= ScanFrom(syncFrom)

\* C9 (guaranteed cleanup): when the bridge has stopped, by the stop signal
\* or by a failure of the transport or the sink, the serial handle and the
\* outlet have both been closed.
C9_GuaranteedCleanup == pc = "stopped" => (~ser_open /\ ~outlet_open)

\* C10 (no silent drop): whenever the bridge is about to read from the
\* transport, every packet that passed validation has been published, once,
\* in order, with the values decoded from its bytes.
C10_NoSilentDrop ==
    pc \in SerialPcs =>
        /\ PublishedStarts = accepted
        /\ \A m, n \in DOMAIN published :
              m /= n => published[m].start /= published[n].start
        /\ \A n \in DOMAIN published :
              /\ published[n].frame = FrameAt(accepted[n])
              /\ published[n].values = Decode(published[n].frame)

\* The bridge is about to read from the transport after a packet passed
\* validation.
C10_Witness == pc \in SerialPcs /\ accepted /= <<>>

\* C11 (publish rejection is fatal): once outlet.push_sample has raised, the
\* bridge has stopped; the rejected sample is the last packet that passed
\* validation and is not among the published samples (no retry); the sample
\* count is the number of samples published before it; and no byte after
\* that packet has been read.
C11_PublishRejectionFatal ==
    exc = "SinkError" =>
        /\ pc = "stopped"
        /\ accepted /= <<>>
        /\ accepted[Len(accepted)] = pktStart
        /\ PublishedStarts = SubSeq(accepted, 1, Len(accepted) - 1)
        /\ sample_count = Len(published)
        /\ pos = pktStart + PACKET_LEN
        /\ data = <<>>

\* The sink has rejected a sample after an earlier one was published, or
\* while a later frame of the device is still unread.
C11_Witness ==
    /\ exc = "SinkError"
    /\ pc = "stopped"
    /\ published /= <<>> \/ pos < Len(stream)

\* Packets the loop has read with its fixed-size read, and those of them it
\* has published or rejected.
PacketsRead ==
    Len(accepted) + Len(rejected) + (IF pc = "validate" THEN 1 ELSE 0)
PacketsSettled == Len(published) + Len(rejected)

HandshakePcs == {"whoru_write", "whoru_read", "start_write", "create_outlet"}

\* How often the log holds the operation op.
Times(op) == Len(SelectSeq(serlog, LAMBDA x : x = op))

\* C13 (the handshake is fire-and-forget): the reply is read with exactly one
\* read, which is never repeated whatever it returned (nothing, part of the
\* device's answer, or bytes of frames); the bridge never stops on it; after
\* the read the start command is the next thing done, and find_sync is
\* entered with the start command sent and the outlet created.
C13_HandshakeFireAndForget ==
    /\ pc /= "stopped"
    /\ exc = "none"
    /\ Times("read") = (IF pc \in {"whoru_write", "whoru_read"} THEN 0 ELSE 1)
    /\ reply = SubSeq(stream, 1, Len(reply))
    /\ pc = "start_write" => serlog = <<"WHORU", "read">>
    /\ pc \in RunningPcs => (Times("START") = 1 /\ outlet_open)

\* The read of the reply timed out although the device had bytes to send,
\* and the bridge has entered synchronization.
C13_Witness ==
    /\ pc = "find_sync_b"
    /\ reply = <<>>
    /\ stream /= <<>>
    /\ synced = <<>>

\* C17 (startup ordering): the operations on the serial port are, in order,
\* the identification request, the read of the reply, the start command,
\* each once; find_sync consumes its first byte only after all three; and
\* nothing is written again, whatever the loop and its resynchronizations
\* do later.
C17_StartupOrdering ==
    /\ Len(serlog) <= Len(StartupLog)
    /\ serlog = SubSeq(StartupLog, 1, Len(serlog))
    /\ pc = "whoru_write" => serlog = <<>>
    /\ pc = "whoru_read" => Len(serlog) = 1
    /\ pc = "start_write" => Len(serlog) = 2
    /\ pc \notin {"whoru_write", "whoru_read", "start_write"} =>
           serlog = StartupLog
    /\ pc \in HandshakePcs => (pos = Len(reply) /\ synced = <<>>)
    /\ (pos > Len(reply) \/ synced /= <<>>) => serlog = StartupLog

\* The bridge has resynchronized after a rejected packet.
C17_Witness ==
    /\ rejected /= <<>>
    /\ Len(synced) >= 2
    /\ reply /= <<>>
    /\ serlog = StartupLog

\* find_sync has returned and main still holds its result in `packet`: the
\* fixed-size read of line 96 has not completed since.
SyncResultHeld ==
    /\ pc = "read_packet"
    /\ synced /= <<>>
    /\ pktStart = synced[Len(synced)].start

\* C14 (shape of the synchronizer's output): the result of every return of
\* find_sync has PACKET_LEN bytes, begins with M1 M2, and is, marker bytes
\* and the PACKET_LEN - 2 bytes after them, one unbroken stretch of the
\* source in arrival order, beginning at or after the position the scan
\* started from.
C14_SyncOutputShape ==
    SyncResultHeld =>
        /\ Len(packet) = PACKET_LEN
        /\ packet[1] = SYNC_BYTE_1
        /\ packet[2] = SYNC_BYTE_2
        /\ pktStart >= synced[Len(synced)].from
        /\ pktStart + PACKET_LEN <= pos
        /\ \A i \in 1..PACKET_LEN : packet[i] = stream[pktStart + i]

\* find_sync has returned after discarding bytes ahead of the marker pair.
C14_Witness ==
    /\ SyncResultHeld
    /\ pktStart > synced[Len(synced)].from

\* The counters main keeps: sample_count (lines 91, 115) is the only one.
Counters == {sample_count}

\* C15 (framing errors are counted, never surfaced): a counter of the bridge
\* holds the number of marker or terminator mismatches the loop has
\* detected, having gone up by one at each; after each mismatch the bridge
\* is back in synchronization or has left it with a frame; the bridge never
\* stops on a mismatch.
C15_FramingErrorsCounted ==
    /\ \E c \in Counters : c = Len(rejected)
    /\ pc \in FindSyncPcs \/ Len(synced) = Len(rejected) + 1
    /\ pc /= "stopped"
    /\ exc = "none"

\* All state but the position in the code and what the rate reporter writes
\* (last_report and its output).
DataPath == <<stream, layout, pos, ret, data, packet, pktStart, syncFrom,
              values, sample_count, exc, ser_open, outlet_open,
              synced, rejected, accepted, published, boot>>

\* C16 (the rate reporter does not affect the data path): the step of lines
\* 118-121 leaves sample_count, the read position, the published sequence
\* and all other state of the data path as they were, whatever the clock
\* reads and whether or not a line is printed; it writes last_report only
\* together with printing a line; and it always hands over to the next
\* fixed-size read.
C16_ReporterFrame ==
    [][pc = "report" =>
          /\ UNCHANGED DataPath
          /\ pc' = "read_packet"
          /\ reports' = reports => last_report' = last_report
          /\ reports' /= reports =>
                 reports' = Append(reports, sample_count)]_vars

\* The reporter has run at least twice, printing a line at least once and
\* not printing at least once.
C16_Witness ==
    /\ pc = "read_packet"
    /\ reports /= <<>>
    /\ Len(published) > Len(reports)

\* C18 (synchronization never gives up): the bridge never stops or raises
\* out of find_sync, however many bytes it has discarded and however often
\* its reads timed out; each return of find_sync came after M1 M2 and
\* PACKET_LEN - 2 further bytes had been consumed; and find_sync has been
\* entered once at startup and once more after every packet that failed
\* validation, with no limit.
C18_SyncNeverGivesUp ==
    /\ pc /= "stopped"
    /\ exc = "none"
    /\ \A n \in DOMAIN synced :
          /\ stream[synced[n].start + 1] = SYNC_BYTE_1
          /\ stream[synced[n].start + 2] = SYNC_BYTE_2
          /\ synced[n].from <= synced[n].start
          /\ synced[n].start + PACKET_LEN <= pos
    /\ Len(synced) = (IF pc \in FindSyncPcs \cup HandshakePcs
                      THEN Len(rejected) ELSE Len(rejected) + 1)
    /\ pc \in FindSyncPcs => syncFrom <= pos

\* Re-entered after a rejection, find_sync has consumed a packet's worth of
\* bytes up to the end of the device's output and is still searching.
C18_Witness ==
    /\ pc \in FindSyncPcs
    /\ rejected /= <<>>
    /\ pos = Len(stream)
    /\ pos - syncFrom >= PACKET_LEN

\* The n of the read_exact call in progress (lines 52 and 96).
ReadExactN == IF pc = "find_sync_rest" THEN PACKET_LEN - 2 ELSE PACKET_LEN

\* C19 (read_exact reads exactly n bytes): while read_exact runs, `data` is
\* the unbroken run of the last Len(data) bytes consumed from the source, in
\* arrival order, and is shorter than n; what it returns is exactly the n
\* bytes that followed the read position at its call, and the read position
\* then stands right behind the n-th of them, for every split into chunks
\* and every number of empty reads.
C19_ReadExact ==
    /\ pc \in {"find_sync_rest", "read_packet"} =>
          /\ Len(data) < ReadExactN
          /\ Len(data) <= pos
          /\ data = SubSeq(stream, pos - Len(data) + 1, pos)
    /\ pc \notin {"find_sync_rest", "read_packet"} => data = <<>>
    /\ pc = "validate" =>
          /\ Len(packet) = PACKET_LEN
          /\ packet = SubSeq(stream, pos - PACKET_LEN + 1, pos)
    /\ (SyncResultHeld /\ data = <<>>) =>
          /\ Len(packet) = PACKET_LEN
          /\ SubSeq(packet, 3, PACKET_LEN)
                = SubSeq(stream, pos - (PACKET_LEN - 2) + 1, pos)
    /\ (pc = "read_packet" /\ data = <<>>) => pos = pktStart + PACKET_LEN

\* read_exact holds all but the last byte of a packet, after an earlier
\* packet was read whole.
C19_Witness ==
    /\ pc = "read_packet"
    /\ Len(data) = PACKET_LEN - 1
    /\ accepted /= <<>>

\* The device output with the counter byte of every frame replaced by c.
TwinStream(c) ==
    [i \in 1..Len(stream) |->
        IF \E f \in DOMAIN layout : i = layout[f].start + 3
        THEN c ELSE stream[i]]

IsPrefix(a, b) == Len(a) <= Len(b) /\ a = SubSeq(b, 1, Len(a))

\* Of a run of the loop: the offsets of the packets it rejected, and the
\* packets it published with their values.
Rejections(run) ==
    LET r == SelectSeq(run, LAMBDA d : ~d.ok)
    IN  [n \in DOMAIN r |-> r[n].start]
Publications(run) ==
    LET a == SelectSeq(run, LAMBDA d : d.ok)
    IN  [n \in DOMAIN a |-> [start |-> a[n].start, values |-> a[n].values]]

\* What this run has rejected and published so far.
PublishedSoFar ==
    [n \in DOMAIN published |->
        [start |-> published[n].start, values |-> published[n].values]]

\* With no read timing out, the bridge does what RunOn computes for its
\* stream.
RunOnAgrees ==
    /\ IsPrefix(rejected, Rejections(RunOn(stream)))
    /\ IsPrefix(PublishedSoFar, Publications(RunOn(stream)))

\* C20 as stated (the counter byte is unused): a device output that differs
\* from this one only in the counter bytes of its frames gets the same
\* accept/reject decisions and the same published samples; so what this run
\* has rejected and published so far is the beginning of what the run on
\* such an output rejects and publishes.
C20_CounterIgnoredByStream ==
    \A c \in CounterValues :
        /\ IsPrefix(rejected, Rejections(RunOn(TwinStream(c))))
        /\ IsPrefix(PublishedSoFar, Publications(RunOn(TwinStream(c))))

\* The values of a byte.
ByteValues == 0..255

\* The packet p with the byte at offset 2 replaced by c.
WithCounter(p, c) == [p EXCEPT ![3] = c]

\* C20 as it holds (the loop does not read offset 2 of its packet): for the
\* packet the loop holds, every value of the byte at offset 2 gives the same
\* result of the sanity checks, the same next step and the same decoded
\* values, which are the values pushed.
C20_CounterUnreadInPacket ==
    /\ pc = "validate" =>
          \A c \in ByteValues :
              /\ Valid(WithCounter(packet, c)) = Valid(packet)
              /\ AfterValidate(Valid(WithCounter(packet, c)))
                    = AfterValidate(Valid(packet))
              /\ Decode(WithCounter(packet, c)) = Decode(packet)
    /\ pc = "push" => values = Decode(packet)

\* A packet whose byte at offset 2 equals M1 is about to be pushed.
C20_Witness ==
    /\ pc = "push"
    /\ packet[3] = SYNC_BYTE_1
    /\ packet = FrameAt(pktStart)

\* C21 (running count): sample_count is 0 until the first publish; at the
\* head of every iteration of the loop, and everywhere else but between a
\* publish and the increment that follows it, it equals the number of
\* samples published so far; right after a publish it is one short of that
\* number and the next step adds exactly 1; rejections, resynchronizations
\* and reports leave it as it was.
C21_RunningCount ==
    /\ published = <<>> => sample_count = 0
    /\ pc = "count" => sample_count + 1 = Len(published)
    /\ pc /= "count" => sample_count = Len(published)
    /\ \A n \in DOMAIN published : published[n].index = n - 1

\* A sample was published, counted and reported, the next packet was
\* rejected, and the bridge is resynchronizing.
C21_Witness ==
    /\ pc \in FindSyncPcs
    /\ sample_count = 1
    /\ Len(published) = 1
    /\ rejected /= <<>>
    /\ reports /= <<>>

\* An iteration of the main loop ends: the packet was rejected (line 102) or
\* lines 118-121 have run.
IterationEnds ==
    /\ pc \in {"validate", "report"}
    /\ pc' \in {"read_packet", "find_sync_b"}

\* Lines 119-121 print a line: the line shows the running count, and the time
\* just read is at least one interval after last_report and becomes the new
\* last_report.
ReportEmitted ==
    /\ pc = "report"
    /\ clock' - last_report >= REPORT_INTERVAL
    /\ last_report' = clock'
    /\ reports' = Append(reports, sample_count)

\* C22 (as stated): consecutive reports are at least one interval apart,
\* last_report is set to the current time exactly when a report is emitted,
\* and whenever at least one interval has elapsed since last_report the loop
\* iteration that ends then has emitted a report.
C22_ReportEveryInterval ==
    [][/\ reports' /= reports => ReportEmitted
       /\ last_report' /= last_report => reports' /= reports
       /\ (IterationEnds /\ clock' - last_report >= REPORT_INTERVAL)
              => reports' /= reports]_vars

\* C22 (amended): consecutive reports are at least one interval apart,
\* last_report is set to the current time exactly when a report is emitted,
\* and whenever lines 118-119 run, at the end of an iteration that published
\* a sample, with at least one interval elapsed since last_report, a report
\* is emitted; an iteration that rejects its packet emits none.
C22_ReportWhenChecked ==
    [][/\ reports' /= reports => ReportEmitted
       /\ last_report' /= last_report => reports' /= reports
       /\ (pc = "report" /\ pc' /= "report"
              /\ clock' - last_report >= REPORT_INTERVAL)
              => reports' /= reports
       /\ (pc = "validate" /\ pc' = "find_sync_b")
              => UNCHANGED <<reports, last_report>>]_vars

\* Two consecutive reports were emitted, the second one interval after the
\* first, and the loop goes on.
C22_Witness ==
    /\ pc = "read_packet"
    /\ Len(reports) = 2
    /\ last_report = StartClock + 2 * REPORT_INTERVAL
    /\ clock = last_report

\* The lines printed up to and including line 89.
StartupLines == StartupOutput \o <<"Sync found">>

\* C23: resynchronization is silent.  Once the startup messages are out, the
\* only lines the running bridge prints are throughput lines, one per report;
\* a rejected packet and the find_sync call that follows it print nothing.
C23_SilentResync ==
    /\ synced = <<>> => Len(stdout) < Len(StartupLines)
    /\ synced /= <<>> =>
           stdout = StartupLines \o [n \in 1..Len(reports) |-> RateLine]

\* A packet was rejected, find_sync found the next frame and returned to
\* line 101, and the last line printed is still that of line 89.
C23_Witness ==
    /\ Len(synced) >= 2
    /\ rejected /= <<>>
    /\ pc = "read_packet"
    /\ stdout[Len(stdout)] = "Sync found"

\* The offsets of the frames find_sync has returned.
SyncStarts == {synced[n].start : n \in DOMAIN synced}

\* The offsets of the packets the loop has checked at line 99.
CheckedStarts ==
    {accepted[n] : n \in DOMAIN accepted} \cup {rejected[n] : n \in DOMAIN rejected}

\* C24: the frame find_sync returns is never validated, decoded or published,
\* at startup and after every rejection alike: the packet the loop holds at
\* lines 99-114 was read after that frame, which line 96 has overwritten.
\* When the loop rejects a device frame, neither that frame nor the frame
\* that follows it is published.
C24_SyncFrameConsumed ==
    /\ \A s \in SyncStarts :
          /\ s \notin CheckedStarts
          /\ \A n \in DOMAIN published : published[n].start /= s
    /\ pc \in {"validate", "decode", "push"} =>
          /\ synced /= <<>>
          /\ pktStart >= synced[Len(synced)].start + PACKET_LEN
          /\ packet = FrameAt(pktStart)
    /\ \A i \in DOMAIN layout :
          \A k \in DOMAIN rejected :
              rejected[k] = layout[i].start =>
                  \A n \in DOMAIN published :
                      /\ published[n].start /= layout[i].start
                      /\ i + 1 \in DOMAIN layout =>
                            published[n].start /= layout[i + 1].start

\* A frame with a bad terminator was rejected, find_sync returned the
\* well-formed frame after it, the loop is back at line 96 with all of the
\* stream consumed, and nothing was published.
C24_Witness ==
    /\ pc = "read_packet"
    /\ Len(layout) = 3
    /\ layout[2].kind = "bad"
    /\ WellFormed(layout[3].kind)
    /\ rejected = <<layout[2].start>>
    /\ synced[2].start = layout[3].start
    /\ pos = Len(stream)
    /\ published = <<>>

\* The offsets of the whole frames of the stream.
FrameStarts == {layout[i].start : i \in DOMAIN layout}

\* The publishes of whole frames, in order.
FramePublishes == SelectSeq(published, LAMBDA s : s.start \in FrameStarts)

\* Every whole frame that begins after offset `from` has been published.
PublishedAfter(from) ==
    \A f \in FrameStarts :
        f > from => \E n \in DOMAIN published : published[n].start = f

\* C25 (as stated): when only whole well-formed frames arrive from some point
\* on, the bridge eventually publishes a sample, and from that publish on it
\* rejects no packet, calls find_sync no more, and publishes every frame that
\* follows.
C25_EventualRecovery ==
    /\ <>(published /= <<>>)
    /\ [][published /= <<>> =>
             (rejected' = rejected /\ synced' = synced
                 /\ pc' \notin FindSyncPcs)]_vars
    /\ <>[](published /= <<>> /\ PublishedAfter(published[1].start))

\* C25 (amended): when only whole well-formed frames arrive from some point
\* on, the bridge eventually publishes one of these frames, and from that
\* publish on it rejects no packet, calls find_sync no more, and publishes
\* every frame that follows.
C25_RecoveryOnWholeFrame ==
    /\ <>(FramePublishes /= <<>>)
    /\ [][FramePublishes /= <<>> =>
             (rejected' = rejected /\ synced' = synced
                 /\ pc' \notin FindSyncPcs)]_vars
    /\ <>[](FramePublishes /= <<>>
               /\ PublishedAfter(FramePublishes[1].start))

\* The loop published a packet made of the end of the disturbance and the
\* first bytes of a frame, rejected the next packet, went through find_sync
\* again, and has since published the rest of the stream's frames.
C25_Witness ==
    /\ \E n \in DOMAIN published : published[n].start \notin FrameStarts
    /\ Len(synced) = 2
    /\ rejected /= <<>>
    /\ FramePublishes /= <<>>
    /\ PublishedAfter(FramePublishes[1].start)
    /\ pos = Len(stream)

\* The largest value of the device's 14-bit converter (comment of line 110).
AdcMax == 2^14 - 1

\* C26 (range of published values): every published channel value is a whole
\* number in 0..65535, equal to high * 256 + low of the channel's two bytes,
\* both in 0..255; nothing is masked, clamped or scaled, so a value above the
\* 14-bit range is published as it was received.
C26_PublishedRange ==
    \A n \in DOMAIN published :
        \A c \in 1..NUM_CHANNELS :
            LET high == published[n].frame[2 + 2 * c]
                low  == published[n].frame[3 + 2 * c]
                v    == published[n].values[c]
            IN  /\ high \in 0..255
                /\ low \in 0..255
                /\ v \in 0..65535
                /\ v = high * 256 + low
                /\ (high * 256 + low > AdcMax) => v > AdcMax

\* Values at and beyond the 14-bit range have been published: 16383, 16384
\* or 65535 on the last channel.
C26_Witness ==
    /\ published /= <<>>
    /\ published[Len(published)].values[NUM_CHANNELS]
           \in {AdcMax, AdcMax + 1, 65535}
    /\ pc = "read_packet"

\* The arguments make_marker can be called with.
MarkerArgs ==
    {<<p, a, b, m>> : p \in {PHASE[k] : k \in DOMAIN PHASE},
                      a \in {ARM_CODES[k] : k \in DOMAIN ARM_CODES},
                      b \in BASELINE_NAMES, m \in MOVE_CODES}

\* The arguments of the call that pushed lsl_marker.
PushedArgs ==
    <<PHASE[phase], ARM_CODES[block.arm], block.base_code, block.move_code>>

\* C27: make_marker is injective over the phase, arm, baseline and movement
\* codes: no other arguments give the marker just pushed, each argument is
\* recovered from the marker by division, and the marker is greater than
\* every control code.
C27_MarkerInjective ==
    phase \in DOMAIN PHASE =>
        /\ PushedArgs \in MarkerArgs
        /\ \A t \in MarkerArgs :
              make_marker(t[1], t[2], t[3], t[4]) = lsl_marker
                  => t = PushedArgs
        /\ lsl_marker \div 10000 = PushedArgs[1]
        /\ (lsl_marker % 10000) \div 1000 = PushedArgs[2]
        /\ (lsl_marker % 1000) \div 100 = PushedArgs[3]
        /\ lsl_marker % 100 = PushedArgs[4]
        /\ \A c \in CONTROL_CODES : lsl_marker > c

\* The smallest and the largest marker: the cue of the left arm with baseline
\* 1 and movement 0, or the iti of the right arm with baseline 3 and
\* movement 99.
C27_Witness ==
    \/ phase = "cue" /\ lsl_marker = 11100
    \/ phase = "iti" /\ lsl_marker = 92399

====
